---- MODULE Spec2Model ----
(***************************************************************************)
(* AgriWealth livestock agent: the LangGraph workflow of                   *)
(* agriwealth_agent.py (mode dispatch, SQL planning, validation,           *)
(* execution, regeneration, synthesis) driven by                           *)
(* main.process_livestock_query.                                           *)
(*                                                                         *)
(* Python strings are TLA+ strings (Len, SubSeq and \o apply to them).     *)
(* Python values whose type matters at run time are tagged records         *)
(* [type, val].                                                            *)
(***************************************************************************)
EXTENDS Integers, Sequences, FiniteSets, TLC

VARIABLES
    pc,       \* the graph node about to run, "idle" between turns, "END" after the graph
    state,    \* the AgentState dict threaded through the graph
    ret,      \* the value process_livestock_query returned last
    path,     \* history: the nodes run so far in this turn, in order
    batches,  \* history: sql_error of every batch executed in this turn, in order
    db_log,   \* history: the statements session.execute received in the last batch
    args,     \* the arguments of the process_livestock_query call: question, current_mode
    calls,    \* history: the language model calls of this turn, in order
    candidate, \* the text a direct caller passes to is_sql_safe
    verdict,  \* what is_sql_safe returned for it, once called
    SCHEMA_CACHE,    \* _SCHEMA_CACHE: the cached schema text, or None
    CACHE_TIMESTAMP, \* _CACHE_TIMESTAMP: current_time of the call that wrote it last
    clock,           \* what time.time() and datetime.now() read
    table_names,     \* the tables inspector.get_table_names() finds
    callers,         \* per thread: where it is in get_database_schema, and its locals
    reads,           \* history: the texts the last two calls returned
    last_writer,     \* history: the thread that assigned _SCHEMA_CACHE last
    cache_started    \* history: current_time of the call whose text _SCHEMA_CACHE holds

\* the variables of a direct call of is_sql_safe
valVars == <<candidate, verdict>>

\* the variables of the schema cache
cacheVars ==
    <<SCHEMA_CACHE, CACHE_TIMESTAMP, clock, table_names, callers, reads, last_writer,
      cache_started>>

\* the variables of the graph run
flowVars == <<pc, state, ret, path, batches, db_log, args, calls>>

vars ==
    <<pc, state, ret, path, batches, db_log, args, calls, candidate, verdict,
      SCHEMA_CACHE, CACHE_TIMESTAMP, clock, table_names, callers, reads, last_writer,
      cache_started>>

(***************************************************************************)
(* Bounds of the model.                                                    *)
(***************************************************************************)
\* Longest list of queries the planner returns in the model, every choice of
\* statements taken; LongPlan is the one longer list.
MaxBatch == 2

\* Number of cache lifetimes the clock runs through.
MaxPeriods == 1

(***************************************************************************)
(* Python values.                                                          *)
(***************************************************************************)
PyStr(s) == [type |-> "str", val |-> s]
PyList(l) == [type |-> "list", val |-> l]
PyNone == [type |-> "NoneType", val |-> ""]
PyAbsent == [type |-> "absent", val |-> ""]
\* str(combined_results): the dict printed as text
PyRepr(d) == [type |-> "repr", val |-> d]

\* str(x) for a str or None
Str(v) == IF v.type = "NoneType" THEN "None" ELSE v.val

\* truth value of a str or a list: empty is falsy
Truthy(v) == IF v.type \in {"NoneType", "absent"} THEN FALSE ELSE Len(v.val) > 0

(***************************************************************************)
(* str.strip, str.lower, str.startswith, str.count, the `in` operator.     *)
(***************************************************************************)
Whitespace == {" ", "\t", "\n"}

CharAt(s, i) == SubSeq(s, i, i)

RECURSIVE lstrip(_)
lstrip(s) ==
    IF Len(s) > 0 /\ CharAt(s, 1) \in Whitespace
    THEN lstrip(SubSeq(s, 2, Len(s)))
    ELSE s

RECURSIVE rstrip(_)
rstrip(s) ==
    IF Len(s) > 0 /\ CharAt(s, Len(s)) \in Whitespace
    THEN rstrip(SubSeq(s, 1, Len(s) - 1))
    ELSE s

strip(s) == rstrip(lstrip(s))

UpperCase == "ABCDEFGHIJKLMNOPQRSTUVWXYZ"
LowerCase == "abcdefghijklmnopqrstuvwxyz"

LowerChar(c) ==
    IF \E k \in 1..Len(UpperCase) : CharAt(UpperCase, k) = c
    THEN CharAt(LowerCase, CHOOSE k \in 1..Len(UpperCase) : CharAt(UpperCase, k) = c)
    ELSE c

RECURSIVE lower(_)
lower(s) ==
    IF Len(s) = 0 THEN s
    ELSE LowerChar(CharAt(s, 1)) \o lower(SubSeq(s, 2, Len(s)))

startswith(s, p) == Len(s) >= Len(p) /\ SubSeq(s, 1, Len(p)) = p

\* p in s
Contains(s, p) ==
    \E k \in 1..(Len(s) - Len(p) + 1) : SubSeq(s, k, k + Len(p) - 1) = p

\* s.count(c) for a single character c
count(s, c) == Cardinality({k \in 1..Len(s) : CharAt(s, k) = c})

(***************************************************************************)
(* Schema constants and the SQL safety validator.                          *)
(***************************************************************************)
SPECIES == <<"cow", "goat", "sheep", "chicken">>

FORBIDDEN_SQL_PATTERNS ==
    <<"drop ", "alter ", "truncate ", "--", "/*", "*/",
      "delete from", "update ", "insert into", "create table",
      "grant ", "revoke ">>

ALLOWED_TABLES ==
    UNION {{SPECIES[k] \o "s",
            SPECIES[k] \o "_health_records",
            SPECIES[k] \o "_production_records"} : k \in 1..Len(SPECIES)}

\* is_sql_safe without the test that the text starts with "select"
is_sql_safe_no_select_test(query) ==
    IF Len(query) = 0 \/ Len(strip(query)) = 0 THEN FALSE
    ELSE LET q == lower(strip(query)) IN
         IF Contains(q, ";") /\ count(q, ";") > 1 THEN FALSE
         ELSE IF \E k \in 1..Len(FORBIDDEN_SQL_PATTERNS) :
                     Contains(q, FORBIDDEN_SQL_PATTERNS[k]) THEN FALSE
         ELSE IF ~(\E t \in ALLOWED_TABLES : Contains(q, t)) THEN FALSE
         ELSE TRUE

\* is_sql_safe allowing two separators
is_sql_safe_two_separators(query) ==
    IF Len(query) = 0 \/ Len(strip(query)) = 0 THEN FALSE
    ELSE LET q == lower(strip(query)) IN
         IF ~startswith(q, "select") THEN FALSE
         ELSE IF Contains(q, ";") /\ count(q, ";") > 2 THEN FALSE
         ELSE IF \E k \in 1..Len(FORBIDDEN_SQL_PATTERNS) :
                     Contains(q, FORBIDDEN_SQL_PATTERNS[k]) THEN FALSE
         ELSE IF ~(\E t \in ALLOWED_TABLES : Contains(q, t)) THEN FALSE
         ELSE TRUE

\* is_sql_safe without the allow-list test
is_sql_safe_no_table_test(query) ==
    IF Len(query) = 0 \/ Len(strip(query)) = 0 THEN FALSE
    ELSE LET q == lower(strip(query)) IN
         IF ~startswith(q, "select") THEN FALSE
         ELSE IF Contains(q, ";") /\ count(q, ";") > 1 THEN FALSE
         ELSE IF \E k \in 1..Len(FORBIDDEN_SQL_PATTERNS) :
                     Contains(q, FORBIDDEN_SQL_PATTERNS[k]) THEN FALSE
         ELSE TRUE

is_sql_safe(query) ==
    IF Len(query) = 0 \/ Len(strip(query)) = 0 THEN FALSE
    ELSE LET q == lower(strip(query)) IN
         IF ~startswith(q, "select") THEN FALSE
         ELSE IF Contains(q, ";") /\ count(q, ";") > 1 THEN FALSE
         ELSE IF \E k \in 1..Len(FORBIDDEN_SQL_PATTERNS) :
                     Contains(q, FORBIDDEN_SQL_PATTERNS[k]) THEN FALSE
         ELSE IF ~(\E t \in ALLOWED_TABLES : Contains(q, t)) THEN FALSE
         ELSE TRUE

(***************************************************************************)
(* detect_entity                                                           *)
(***************************************************************************)
AnyWordIn(words, q) == \E w \in words : Contains(q, w)

detect_entity(question) ==
    LET q == lower(question) IN
    IF AnyWordIn({"cow", "bull", "calf"}, q) THEN "cow"
    ELSE IF AnyWordIn({"goat", "kid", "nanny"}, q) THEN "goat"
    ELSE IF AnyWordIn({"sheep", "lamb", "ewe"}, q) THEN "sheep"
    ELSE IF AnyWordIn({"chicken", "fowl", "poultry", "hen", "rooster"}, q) THEN "chicken"
    ELSE IF AnyWordIn({"animal", "livestock", "stock", "inventory"}, q) THEN "general"
    ELSE "general"

(***************************************************************************)
(* The inputs of a turn and the answers of the collaborators.              *)
(***************************************************************************)
\* what the caller passes as current_mode
Modes ==
    {PyNone, PyStr(""), PyStr("1"), PyStr("2"), PyStr("3"), PyStr("4"),
     PyStr("\t2"), PyStr(" 3\n")}

Questions == {"", "How old is COW.1?"}

\* candidate statements the planner may put in ConvertToSQL.sql_queries
PlannerQueries ==
    {" Select * FROM cows WHERE animal_id='COW.1'\n",
     "DROP TABLE cows; SELECT * FROM cows",
     "SELECT * FROM cows; DELETE  FROM cows",
     "SELECT 1"}

RECURSIVE SeqsUpTo(_, _)
SeqsUpTo(S, n) ==
    IF n = 0 THEN {<<>>}
    ELSE LET shorter == SeqsUpTo(S, n - 1) IN
         shorter \cup {Append(q, x) : q \in {r \in shorter : Len(r) = n - 1}, x \in S}

\* "Maximum queries allowed: 5": the planner is told so in its prompt
MaxQueries == 5

\* a plan one statement longer than the prompt allows
LongPlan == [k \in 1..(MaxQueries + 1) |-> "SELECT 1"]

\* what chain.invoke may return as ConvertToSQL.sql_queries: nothing in
\* convert_nl_to_sql looks at its length
PlannerOutputs == SeqsUpTo(PlannerQueries, MaxBatch) \cup {LongPlan}

\* statements the planner may write that already hold the letters "limit":
\* a LIMIT clause of its own, and a column so named
LimitQueries ==
    {"SELECT * FROM cows LIMIT 500",
     "SELECT credit_limit FROM goats"}

\* a statement the validator accepts that ends with its one separator
SeparatorQueries == {" SELECT * FROM goats;\n"}

\* every statement execute_multi_sql is given in the model
ExecutorQueries == PlannerQueries \cup LimitQueries \cup SeparatorQueries

\* detect_entity is a pure function of the question: its value for each
\* question a caller may ask, tabulated once
DetectedEntity == [question \in Questions |-> detect_entity(question)]

\* RewrittenQuestion.question values the rewriter may return
RewriterOutputs == {"Show the birth date of the cow with id COW.1"}

\* texts the answering language model may return
LlmAnswers == {"Daisy is a young cow.", ""}

(***************************************************************************)
(* The database behind session.execute.                                    *)
(***************************************************************************)
SampleRow == [animal_id |-> "COW.1", birth_date |-> "2024-05-15"]

\* the rows one statement may return: none, or one
DbRowSets == {<<>>, <<SampleRow>>}

DbErrors == {"no such column: age"}

\* what one session.execute call does: returns rows or raises
DbOutcomes ==
    {[ok |-> TRUE, rows |-> r, error |-> ""] : r \in DbRowSets}
    \cup {[ok |-> FALSE, rows |-> <<>>, error |-> e] : e \in DbErrors}

\* the place of a refused query in a batch's outcomes: the database is not asked
NotAsked == [ok |-> FALSE, rows |-> <<>>, error |-> "not asked"]

(***************************************************************************)
(* A Python dict that keeps insertion order: a sequence of [key, value].   *)
(***************************************************************************)
\* d[key] = value: replaces the value of a key already there, else appends
DictSet(d, key, value) ==
    IF \E k \in 1..Len(d) : d[k].key = key
    THEN [k \in 1..Len(d) |->
            IF d[k].key = key THEN [key |-> key, value |-> value] ELSE d[k]]
    ELSE Append(d, [key |-> key, value |-> value])

(***************************************************************************)
(* execute_multi_sql: the loop over the planned queries.                   *)
(***************************************************************************)
\* the key without the position of the query
ResultKey_no_index(n, kind) == "Query_" \o kind

\* f"Query_{i+1}_{kind}", n = i + 1
ResultKey(n, kind) == "Query_" \o ToString(n) \o "_" \o kind

\* the row limit written before a final separator
query_to_execute_before_separator(query) ==
    IF Contains(lower(query), "limit") THEN query
    ELSE IF Len(query) > 0 /\ SubSeq(query, Len(query), Len(query)) = ";"
         THEN SubSeq(query, 1, Len(query) - 1) \o " LIMIT 100;"
         ELSE query \o " LIMIT 100"

\* the statement handed to session.execute for a validated query
query_to_execute(query) ==
    IF ~Contains(lower(query), "limit") THEN query \o " LIMIT 100" ELSE query

\* is_sql_safe and the row-limit rewrite are pure functions of the query text:
\* what the loop computes for each candidate statement, tabulated once.
\* query is the stripped text, safe the validator's verdict on it, sent the
\* statement handed to session.execute when it is safe.
Prepared ==
    [raw \in ExecutorQueries |->
        LET query == strip(raw) IN
        [query |-> query,
         safe |-> is_sql_safe(query),
         sent |-> query_to_execute(query)]]

\* the loop body with the result of a statement that ran
Executed(acc, n, raw, outcome) ==
    LET sent == [pos |-> n, text |-> Prepared[raw].sent, outcome |-> outcome] IN
    IF outcome.ok
    THEN [acc EXCEPT
            !.combined_results = DictSet(@, ResultKey(n, "Success"), PyList(outcome.rows)),
            !.submitted = Append(@, sent)]
    ELSE [acc EXCEPT
            !.combined_results =
                DictSet(@, ResultKey(n, "Error"),
                        PyStr("Error executing: " \o outcome.error)),
            !.error_count = @ + 1,
            !.submitted = Append(@, sent)]

\* the loop body refusing an unsafe query
Refused(acc, n) ==
    [acc EXCEPT
        !.combined_results =
            DictSet(@, ResultKey(n, "Refused"), PyStr("Refused to execute unsafe SQL.")),
        !.error_count = @ + 1]

\* the loop body with a refusal that is not counted as an error
ExecOne_refusal_not_counted(acc, n, raw, outcome) ==
    IF ~Prepared[raw].safe
    THEN [Refused(acc, n) EXCEPT !.error_count = acc.error_count]
    ELSE Executed(acc, n, raw, outcome)

\* the loop body without the `continue` after a refusal: the refused query
\* falls through to session.execute
ExecOne_no_continue(acc, n, raw, outcome) ==
    IF ~Prepared[raw].safe
    THEN Executed(Refused(acc, n), n, raw, [ok |-> TRUE, rows |-> <<>>, error |-> ""])
    ELSE Executed(acc, n, raw, outcome)

\* One iteration of the loop for the query at position n (1-based), given what
\* the database does if it is asked.  acc carries combined_results,
\* error_count and the statements submitted so far.
ExecOne(acc, n, raw, outcome) ==
    IF ~Prepared[raw].safe
    THEN Refused(acc, n)
    ELSE Executed(acc, n, raw, outcome)

\* the loop leaving at the first statement the database fails
RECURSIVE ExecLoop_abort_on_error(_, _, _, _)
ExecLoop_abort_on_error(acc, queries, outcomes, n) ==
    IF n > Len(queries) THEN acc
    ELSE LET next == ExecOne(acc, n, queries[n], outcomes[n]) IN
         IF Prepared[queries[n]].safe /\ ~outcomes[n].ok THEN next
         ELSE ExecLoop_abort_on_error(next, queries, outcomes, n + 1)

RECURSIVE ExecLoop(_, _, _, _)
ExecLoop(acc, queries, outcomes, n) ==
    IF n > Len(queries) THEN acc
    ELSE ExecLoop(ExecOne(acc, n, queries[n], outcomes[n]), queries, outcomes, n + 1)

\* the loop starting from the report and the error flag of the batch before
ExecAll_keeps_report(queries, outcomes) ==
    ExecLoop([combined_results |-> state.query_rows,
              error_count |-> IF state.sql_error THEN 1 ELSE 0,
              submitted |-> <<>>],
             queries, outcomes, 1)

ExecAll(queries, outcomes) ==
    ExecLoop([combined_results |-> <<>>, error_count |-> 0, submitted |-> <<>>],
             queries, outcomes, 1)

(***************************************************************************)
(* Routers.                                                                *)
(***************************************************************************)
\* sql_error_router with its two answers exchanged
sql_error_router_exchanged(s) ==
    IF ~s.sql_error THEN "regenerate_query" ELSE "generate_human_readable_answer"

\* sql_error_router sending every batch to the answer
sql_error_router_always_answers(s) == "generate_human_readable_answer"

sql_error_router(s) ==
    IF ~s.sql_error THEN "generate_human_readable_answer" ELSE "regenerate_query"

\* attempt_router with the comparison off by one
attempt_router_off_by_one(s) ==
    IF s.attempts <= 3 THEN "convert_to_sql" ELSE "end_max_iterations"

\* attempt_router giving up one attempt early
attempt_router_early(s) ==
    IF s.attempts < 2 THEN "convert_to_sql" ELSE "end_max_iterations"

\* attempt_router without the limit
attempt_router_no_limit(s) == "convert_to_sql"

attempt_router(s) ==
    IF s.attempts < 3 THEN "convert_to_sql" ELSE "end_max_iterations"

\* initial_path_router comparing the mode as given, without strip()
initial_path_router_no_strip(s) ==
    LET mode == Str(s.mode) IN
    IF mode = "1" THEN [next |-> "db_entry_agent", state |-> s]
    ELSE IF mode = "2" THEN [next |-> "disease_diagnosis_agent", state |-> s]
    ELSE IF mode = "3" THEN [next |-> "web_research_agent", state |-> s]
    ELSE [next |-> "invalid_mode_handler",
          state |-> [s EXCEPT !.router_error = PyStr("Invalid mode selection: " \o mode)]]

\* the node the router names, and the state as the router leaves it
initial_path_router(s) ==
    LET mode == strip(Str(s.mode)) IN
    IF mode = "1" THEN [next |-> "db_entry_agent", state |-> s]
    ELSE IF mode = "2" THEN [next |-> "disease_diagnosis_agent", state |-> s]
    ELSE IF mode = "3" THEN [next |-> "web_research_agent", state |-> s]
    ELSE [next |-> "invalid_mode_handler",
          state |-> [s EXCEPT !.router_error = PyStr("Invalid mode selection: " \o mode)]]

(***************************************************************************)
(* Fixed messages.                                                         *)
(***************************************************************************)
\* the arrows of the source text are written "->" here
InvalidModeMessage ==
    "Invalid option selected.\nPlease choose:\n1 -> Animal Records\n2 -> Disease Diagnosis\n3 -> Web Research"

MaxIterationsMessage ==
    "I'm sorry, I reached the maximum number of attempts (3) to understand and query your records. Please try rephrasing your original question very simply."

(***************************************************************************)
(* get_database_schema and its module-level cache.                         *)
(*                                                                         *)
(* A rendered schema text is the record of what the render read: the date  *)
(* line and, per expected table, the block written for it.  A caller       *)
(* thread runs the function in four steps, between which other threads may *)
(* run: the expiry test (with the return of the cached text), the render,  *)
(* the assignment to _SCHEMA_CACHE and the assignment to _CACHE_TIMESTAMP  *)
(* (with the return).                                                      *)
(***************************************************************************)
SCHEMA_CACHE_DURATION == 300

\* the keys of expected_tables in insertion order
EXPECTED_TABLES ==
    [i \in 1..(3 * Len(SPECIES)) |->
        LET s == SPECIES[((i - 1) \div 3) + 1] IN
        CASE (i - 1) % 3 = 0 -> s \o "s"
          [] (i - 1) % 3 = 1 -> s \o "_health_records"
          [] OTHER -> s \o "_production_records"]

\* what inspector.get_table_names() may return
TableSets ==
    {{EXPECTED_TABLES[i] : i \in 1..Len(EXPECTED_TABLES)},
     {EXPECTED_TABLES[i] : i \in 1..Len(EXPECTED_TABLES)} \ {"sheeps"}}

\* the instants at which the clock is read: the start, and around each expiry
Instants ==
    {t \in 0..(MaxPeriods * SCHEMA_CACHE_DURATION) :
        t % SCHEMA_CACHE_DURATION \in {0, SCHEMA_CACHE_DURATION - 1}}

\* the threads that call get_database_schema; "main" is the one running the graph
Callers == {"main", "other"}

\* _SCHEMA_CACHE = None
None == [date_context |-> -1, blocks |-> <<>>]

\* the render without the branch of line 169: every table gets its columns
render_schema_no_placeholder(now, names) ==
    [date_context |-> now,
     blocks |-> [i \in 1..Len(EXPECTED_TABLES) |->
                   [table |-> EXPECTED_TABLES[i], body |-> "### Columns:"]]]

\* "".join(parts) for a render reading the date now and the tables names
render_schema(now, names) ==
    [date_context |-> now,
     blocks |-> [i \in 1..Len(EXPECTED_TABLES) |->
                   [table |-> EXPECTED_TABLES[i],
                    body |-> IF EXPECTED_TABLES[i] \notin names
                             THEN "*(Table not present in database)*"
                             ELSE "### Columns:"]]]

\* the expiry test with the bound included
cache_is_fresh_inclusive(cache, timestamp, current_time) ==
    cache # None /\ (current_time - timestamp) <= SCHEMA_CACHE_DURATION

\* _SCHEMA_CACHE is not None and (current_time - _CACHE_TIMESTAMP) < SCHEMA_CACHE_DURATION
cache_is_fresh(cache, timestamp, current_time) ==
    cache # None /\ (current_time - timestamp) < SCHEMA_CACHE_DURATION

\* the frame of a thread that is not inside get_database_schema
IdleFrame == [pc |-> "idle", current_time |-> 0, schema_text |-> None]

\* history: a call has returned text; hit tells whether it came from the cache
Returned(text, hit) == [prev |-> reads.last, last |-> text, hit |-> hit]

\* lines 133-138: read the clock, test the cache, return it if it is fresh
check_cache(c) ==
    /\ callers[c].pc = "idle"
    /\ IF cache_is_fresh(SCHEMA_CACHE, CACHE_TIMESTAMP, clock)
       THEN /\ reads' = Returned(SCHEMA_CACHE, TRUE)
            /\ callers' = [callers EXCEPT ![c].current_time = clock]
       ELSE /\ callers' = [callers EXCEPT ![c].pc = "render", ![c].current_time = clock]
            /\ UNCHANGED reads
    /\ UNCHANGED <<SCHEMA_CACHE, CACHE_TIMESTAMP, clock, table_names, last_writer, cache_started>>
    /\ UNCHANGED <<flowVars, valVars>>

\* lines 140-195: read the date, inspect the database, join the parts
render(c) ==
    /\ callers[c].pc = "render"
    /\ callers' = [callers EXCEPT ![c].pc = "write_cache",
                                  ![c].schema_text = render_schema(clock, table_names)]
    /\ UNCHANGED <<SCHEMA_CACHE, CACHE_TIMESTAMP, clock, table_names, reads, last_writer, cache_started>>
    /\ UNCHANGED <<flowVars, valVars>>

\* line 197 keeping the cached text when it is the more recent render
write_cache_keep_newer(c) ==
    /\ callers[c].pc = "write_cache"
    /\ SCHEMA_CACHE' = IF SCHEMA_CACHE.date_context > callers[c].schema_text.date_context
                       THEN SCHEMA_CACHE
                       ELSE callers[c].schema_text
    /\ last_writer' = c
    /\ cache_started' = callers[c].current_time
    /\ callers' = [callers EXCEPT ![c].pc = "write_timestamp"]
    /\ UNCHANGED <<CACHE_TIMESTAMP, clock, table_names, reads>>
    /\ UNCHANGED <<flowVars, valVars>>

\* line 197
write_cache(c) ==
    /\ callers[c].pc = "write_cache"
    /\ SCHEMA_CACHE' = callers[c].schema_text
    /\ last_writer' = c
    /\ cache_started' = callers[c].current_time
    /\ callers' = [callers EXCEPT ![c].pc = "write_timestamp"]
    /\ UNCHANGED <<CACHE_TIMESTAMP, clock, table_names, reads>>
    /\ UNCHANGED <<flowVars, valVars>>

\* lines 198-201
write_timestamp(c) ==
    /\ callers[c].pc = "write_timestamp"
    /\ CACHE_TIMESTAMP' = callers[c].current_time
    /\ reads' = Returned(callers[c].schema_text, FALSE)
    /\ callers' = [callers EXCEPT ![c].pc = "idle"]
    /\ UNCHANGED <<SCHEMA_CACHE, clock, table_names, last_writer, cache_started>>
    /\ UNCHANGED <<flowVars, valVars>>

\* get_database_schema_cached() run by the main thread with no other thread
\* in between: the four steps in one
get_database_schema_cached ==
    LET current_time == clock IN
    IF cache_is_fresh(SCHEMA_CACHE, CACHE_TIMESTAMP, current_time)
    THEN /\ reads' = Returned(SCHEMA_CACHE, TRUE)
         /\ callers' = [callers EXCEPT !["main"].current_time = current_time]
         /\ UNCHANGED <<SCHEMA_CACHE, CACHE_TIMESTAMP, last_writer, cache_started>>
    ELSE LET schema_text == render_schema(clock, table_names) IN
         /\ SCHEMA_CACHE' = schema_text
         /\ CACHE_TIMESTAMP' = current_time
         /\ last_writer' = "main"
         /\ cache_started' = current_time
         /\ reads' = Returned(schema_text, FALSE)
         /\ callers' = [callers EXCEPT !["main"].current_time = current_time,
                                       !["main"].schema_text = schema_text]

\* time passes
tick ==
    /\ \E t \in Instants : t > clock /\ clock' = t
    /\ UNCHANGED <<SCHEMA_CACHE, CACHE_TIMESTAMP, table_names, callers, reads, last_writer, cache_started>>
    /\ UNCHANGED <<flowVars, valVars>>

\* a table is dropped from or restored to the database
tables_change ==
    /\ \E names \in TableSets \ {table_names} : table_names' = names
    /\ UNCHANGED <<SCHEMA_CACHE, CACHE_TIMESTAMP, clock, callers, reads, last_writer, cache_started>>
    /\ UNCHANGED <<flowVars, valVars>>

(***************************************************************************)
(* process_livestock_query: the clean state of a turn.                     *)
(***************************************************************************)
AgentState(question, current_mode) ==
    [question |-> question,
     mode |-> current_mode,
     db_entry |-> "",
     sql_query |-> <<>>,
     query_result |-> PyStr(""),
     query_rows |-> <<>>,
     attempts |-> 0,
     relevance |-> "",
     sql_error |-> FALSE,
     animal_type |-> "unknown",
     intent |-> "",
     awaiting_input |-> PyAbsent,
     router_error |-> PyAbsent]

NoReturn == [type |-> "none", message |-> PyStr(""), next_mode |-> PyNone]

\* process_livestock_query has not been called
NoCall == [question |-> "", current_mode |-> PyNone]

\* is_sql_safe has not been called directly
NotCalled == [called |-> FALSE, value |-> FALSE]

\* no call of process_livestock_query yet
FlowInit ==
    /\ pc = "idle"
    /\ state = AgentState("", PyNone)
    /\ ret = NoReturn
    /\ path = <<>>
    /\ batches = <<>>
    /\ db_log = <<>>
    /\ args = NoCall
    /\ calls = <<>>

ValidatorIdle ==
    /\ candidate = ""
    /\ verdict = NotCalled

\* the module as imported: nothing cached, every expected table in the database
CacheInit ==
    /\ SCHEMA_CACHE = None
    /\ CACHE_TIMESTAMP = 0
    /\ clock = 0
    /\ table_names = {EXPECTED_TABLES[i] : i \in 1..Len(EXPECTED_TABLES)}
    /\ callers = [c \in Callers |-> IdleFrame]
    /\ reads = [prev |-> None, last |-> None, hit |-> FALSE]
    /\ last_writer = "nobody"
    /\ cache_started = 0

Init == FlowInit /\ ValidatorIdle /\ CacheInit

\* a node has run: it joins the history and control moves on
Ran(node, next) ==
    /\ path' = Append(path, node)
    /\ pc' = next

\* chain.invoke has returned: the chain and what it was given join the history
Invoked(chain, input) ==
    calls' = Append(calls, [chain |-> chain, input |-> input])

\* a turn that starts from the state the turn before left
process_livestock_query_reuses_state ==
    /\ pc = "idle"
    /\ \E question \in Questions, current_mode \in Modes :
          /\ args' = [question |-> question, current_mode |-> current_mode]
          /\ state' = [state EXCEPT !.question = question, !.mode = current_mode]
    /\ pc' = "router_entry_node"
    /\ path' = <<>>
    /\ batches' = <<>>
    /\ db_log' = <<>>
    /\ calls' = <<>>
    /\ ret' = NoReturn
    /\ UNCHANGED <<valVars, cacheVars>>

\* the caller starts a turn: a clean state, then app.invoke
process_livestock_query ==
    /\ pc = "idle"
    /\ \E question \in Questions, current_mode \in Modes :
          /\ args' = [question |-> question, current_mode |-> current_mode]
          /\ state' = AgentState(question, current_mode)
    /\ pc' = "router_entry_node"
    /\ path' = <<>>
    /\ batches' = <<>>
    /\ db_log' = <<>>
    /\ calls' = <<>>
    /\ ret' = NoReturn
    /\ UNCHANGED <<valVars, cacheVars>>

\* router_entry_func passes the state through; initial_path_router picks the
\* branch.  The router runs as the path function of add_conditional_edges, on
\* the dict the graph library hands it: what it writes there reaches the
\* state of the run if that dict is the state itself, and is lost if it is a
\* copy read from the state.  The library is not part of the sources, so
\* both are steps of the model.
router_entry_node ==
    /\ pc = "router_entry_node"
    /\ LET r == initial_path_router(state) IN
         /\ state' \in {r.state, state}
         /\ Ran("router_entry_node", r.next)
    /\ UNCHANGED <<ret, batches, db_log, args, calls, valVars, cacheVars>>

db_entry_agent ==
    /\ pc = "db_entry_agent"
    /\ IF Len(state.question) = 0
       THEN state' = [state EXCEPT !.awaiting_input = PyStr("True")]
       ELSE state' = [state EXCEPT
                        !.db_entry = state.question,
                        !.animal_type = DetectedEntity[state.question],
                        !.intent = "query_db",
                        !.relevance = "relevant"]
    \* workflow.add_edge("db_entry_agent", "convert_to_sql")
    /\ Ran("db_entry_agent", "convert_to_sql")
    /\ UNCHANGED <<ret, batches, db_log, args, calls, valVars, cacheVars>>

\* web_research_agent with an edge to the synthesis step in the place of END
web_research_agent_then_synthesis ==
    /\ pc = "web_research_agent"
    /\ \E response \in LlmAnswers :
          state' = [state EXCEPT !.query_result = PyStr(response)]
    /\ Invoked("research_chain", state.question)
    /\ Ran("web_research_agent", "generate_human_readable_answer")
    /\ UNCHANGED <<ret, batches, db_log, args, valVars, cacheVars>>

web_research_agent ==
    /\ pc = "web_research_agent"
    /\ \E response \in LlmAnswers :
          state' = [state EXCEPT !.query_result = PyStr(response)]
    /\ Invoked("research_chain", state.question)
    /\ Ran("web_research_agent", "END")
    /\ UNCHANGED <<ret, batches, db_log, args, valVars, cacheVars>>

disease_diagnosis_agent ==
    /\ pc = "disease_diagnosis_agent"
    /\ \E response \in LlmAnswers :
          state' = [state EXCEPT !.query_result = PyStr(response)]
    /\ Invoked("diagnosis_chain", state.question)
    /\ Ran("disease_diagnosis_agent", "END")
    /\ UNCHANGED <<ret, batches, db_log, args, valVars, cacheVars>>

convert_nl_to_sql ==
    /\ pc = "convert_to_sql"
    /\ \E sql_queries \in PlannerOutputs :
          state' = [state EXCEPT !.sql_query = sql_queries]
    /\ Invoked("planner", state.db_entry)
    /\ Ran("convert_to_sql", "execute_sql")
    /\ db_log' = <<>>  \* nothing of the new plan has been submitted yet
    /\ get_database_schema_cached  \* the schema handed to the planner
    /\ UNCHANGED <<ret, batches, args, valVars, clock, table_names>>

execute_multi_sql ==
    /\ pc = "execute_sql"
    /\ \E outcomes \in [1..Len(state.sql_query) -> DbOutcomes \cup {NotAsked}] :
          /\ \A k \in 1..Len(state.sql_query) :
                (outcomes[k] = NotAsked) <=> ~Prepared[state.sql_query[k]].safe
          /\ LET done == ExecAll(state.sql_query, outcomes)
                after == [state EXCEPT
                            !.query_rows = done.combined_results,
                            !.query_result = PyRepr(done.combined_results),
                            !.sql_error = (done.error_count > 0)]
            IN /\ state' = after
               /\ db_log' = done.submitted
               /\ batches' = Append(batches, after.sql_error)
               /\ Ran("execute_sql", sql_error_router(after))
    /\ UNCHANGED <<ret, args, calls, valVars, cacheVars>>

\* the prompt choice taking a report without entries for data
SynthesisCase_empty_is_data(s) ==
    IF s.sql_error THEN "sql_error"
    ELSE IF /\ Len(s.query_rows) > 0
            /\ ~(\E k \in 1..Len(s.query_rows) : Truthy(s.query_rows[k].value))
         THEN "no_data"
         ELSE "data_available"

\* the prompt choice with all() in the place of any()
SynthesisCase_all_rows(s) ==
    IF s.sql_error THEN "sql_error"
    ELSE IF \E k \in 1..Len(s.query_rows) : ~Truthy(s.query_rows[k].value) THEN "no_data"
    ELSE "data_available"

\* which of the three prompts generate_human_readable_answer builds
SynthesisCase(s) ==
    IF s.sql_error THEN "sql_error"
    ELSE IF ~(\E k \in 1..Len(s.query_rows) : Truthy(s.query_rows[k].value)) THEN "no_data"
    ELSE "data_available"

\* the third prompt takes its date line from get_database_schema_cached()
generate_human_readable_answer ==
    /\ pc = "generate_human_readable_answer"
    /\ \E answer \in LlmAnswers :
          state' = [state EXCEPT !.query_result = PyStr(answer)]
    /\ Invoked("synthesizer", SynthesisCase(state))
    /\ Ran("generate_human_readable_answer", "END")
    /\ IF SynthesisCase(state) = "data_available"
       THEN get_database_schema_cached
       ELSE UNCHANGED <<SCHEMA_CACHE, CACHE_TIMESTAMP, callers, reads, last_writer, cache_started>>
    /\ UNCHANGED <<ret, batches, db_log, args, valVars, clock, table_names>>

\* regenerate_query that also clears the failed plan and its report
regenerate_query_clears_report ==
    /\ pc = "regenerate_query"
    /\ \E question \in RewriterOutputs :
          LET after == [state EXCEPT !.db_entry = question, !.attempts = @ + 1,
                                     !.sql_query = <<>>, !.query_rows = <<>>,
                                     !.sql_error = FALSE] IN
             /\ state' = after
             /\ Ran("regenerate_query", attempt_router(after))
    /\ Invoked("rewriter", state.db_entry)
    /\ UNCHANGED <<ret, batches, db_log, args, valVars, cacheVars>>

regenerate_query ==
    /\ pc = "regenerate_query"
    /\ \E question \in RewriterOutputs :
          LET after == [state EXCEPT !.db_entry = question, !.attempts = @ + 1] IN
             /\ state' = after
             /\ Ran("regenerate_query", attempt_router(after))
    /\ Invoked("rewriter", state.db_entry)
    /\ UNCHANGED <<ret, batches, db_log, args, valVars, cacheVars>>

invalid_mode_handler ==
    /\ pc = "invalid_mode_handler"
    /\ state' = [state EXCEPT !.query_result = PyStr(InvalidModeMessage)]
    /\ Ran("invalid_mode_handler", "END")
    /\ UNCHANGED <<ret, batches, db_log, args, calls, valVars, cacheVars>>

end_max_iterations ==
    /\ pc = "end_max_iterations"
    /\ state' = [state EXCEPT !.query_result = PyStr(MaxIterationsMessage)]
    /\ Ran("end_max_iterations", "END")
    /\ UNCHANGED <<ret, batches, db_log, args, calls, valVars, cacheVars>>

\* the return for a final state without the key "query_result"
NoResultReturn(current_mode) ==
    [type |-> "error",
     message |-> PyStr("Workflow completed but no result was generated. Check agent logs for details."),
     next_mode |-> current_mode]

\* the return with a test of the result's truth in the place of the key test
ReturnResult_requires_text ==
    /\ pc = "END"
    /\ ret' = IF Truthy(state.query_result)
              THEN [type |-> "success", message |-> state.query_result,
                    next_mode |-> state.mode]
              ELSE NoResultReturn(args.current_mode)
    /\ pc' = "idle"
    /\ UNCHANGED <<state, path, batches, db_log, args, calls, valVars, cacheVars>>

\* app.invoke returns final_state; process_livestock_query wraps it
ReturnResult ==
    /\ pc = "END"
    /\ ret' = IF state.query_result # PyAbsent
              THEN [type |-> "success", message |-> state.query_result,
                    next_mode |-> state.mode]
              ELSE NoResultReturn(args.current_mode)
    /\ pc' = "idle"
    /\ UNCHANGED <<state, path, batches, db_log, args, calls, valVars, cacheVars>>

\* the steps of one graph run
GraphStep ==
    \/ router_entry_node
    \/ db_entry_agent
    \/ web_research_agent
    \/ disease_diagnosis_agent
    \/ convert_nl_to_sql
    \/ execute_multi_sql
    \/ generate_human_readable_answer
    \/ regenerate_query
    \/ invalid_mode_handler
    \/ end_max_iterations
    \/ ReturnResult

Next == process_livestock_query \/ GraphStep

Spec == Init /\ [][Next]_vars

\* app.invoke runs the graph to its end once started: every call returns
FairSpec == Spec /\ WF_vars(GraphStep)

(***************************************************************************)
(* Calls that raise.  No node catches what a collaborator raises, so the   *)
(* exception leaves app.invoke and reaches the handler of                  *)
(* process_livestock_query.                                                *)
(***************************************************************************)
\* str(e) of what a language model call, the session factory or the
\* inspector may raise
Exceptions == {"429 Resource exhausted"}

\* the handler returning None as next_mode
ErrorReturn_without_mode(e, current_mode) ==
    [type |-> "error",
     message |-> PyStr("Internal error in the LangGraph workflow: " \o e),
     next_mode |-> PyNone]

\* except Exception as e: the value returned
ErrorReturn(e, current_mode) ==
    [type |-> "error",
     message |-> PyStr("Internal error in the LangGraph workflow: " \o e),
     next_mode |-> current_mode]

\* the nodes with a call outside any try: chain.invoke, SessionLocal(),
\* session.close()
RaisingNodes ==
    {"web_research_agent", "disease_diagnosis_agent", "execute_sql",
     "generate_human_readable_answer", "regenerate_query"}

\* such a call raises before the node has written to the state
node_raises ==
    /\ pc \in RaisingNodes
    /\ \E e \in Exceptions : ret' = ErrorReturn(e, args.current_mode)
    /\ pc' = "idle"
    /\ UNCHANGED <<state, path, batches, db_log, args, calls, valVars, cacheVars>>

\* convert_nl_to_sql: the inspector raises inside get_database_schema, or the
\* planner raises after the schema has been fetched
convert_nl_to_sql_raises ==
    /\ pc = "convert_to_sql"
    /\ \E e \in Exceptions : ret' = ErrorReturn(e, args.current_mode)
    /\ pc' = "idle"
    /\ \/ /\ ~cache_is_fresh(SCHEMA_CACHE, CACHE_TIMESTAMP, clock)
          /\ UNCHANGED <<SCHEMA_CACHE, CACHE_TIMESTAMP, callers, reads, last_writer, cache_started>>
       \/ get_database_schema_cached
    /\ UNCHANGED <<state, path, batches, db_log, args, calls, valVars, clock, table_names>>

\* the graph run with calls that may raise
FaultNext == Next \/ node_raises \/ convert_nl_to_sql_raises

FaultSpec == Init /\ [][FaultNext]_vars

(***************************************************************************)
(* execute_multi_sql on its own: the state convert_nl_to_sql leaves in the *)
(* first attempt of a mode "1" turn, for every plan over ExecutorQueries.  *)
(***************************************************************************)
PlannedState(question, sql_queries) ==
    [AgentState(question, PyStr("1")) EXCEPT
        !.db_entry = question,
        !.animal_type = DetectedEntity[question],
        !.intent = "query_db",
        !.relevance = "relevant",
        !.sql_query = sql_queries]

\* the cache as the first convert_nl_to_sql leaves it
CacheAfterFirstCall ==
    LET schema_text == render_schema(0, {EXPECTED_TABLES[i] : i \in 1..Len(EXPECTED_TABLES)}) IN
    /\ SCHEMA_CACHE = schema_text
    /\ CACHE_TIMESTAMP = 0
    /\ clock = 0
    /\ table_names = {EXPECTED_TABLES[i] : i \in 1..Len(EXPECTED_TABLES)}
    /\ callers = [c \in Callers |->
                    IF c = "main" THEN [IdleFrame EXCEPT !.schema_text = schema_text]
                    ELSE IdleFrame]
    /\ reads = [prev |-> None, last |-> schema_text, hit |-> FALSE]
    /\ last_writer = "main"
    /\ cache_started = 0

ExecInit ==
    /\ pc = "execute_sql"
    /\ \E question \in Questions \ {""}, sql_queries \in SeqsUpTo(ExecutorQueries, MaxBatch) :
          /\ args = [question |-> question, current_mode |-> PyStr("1")]
          /\ state = PlannedState(question, sql_queries)
    /\ ret = NoReturn
    /\ path = <<"router_entry_node", "db_entry_agent", "convert_to_sql">>
    /\ batches = <<>>
    /\ db_log = <<>>
    /\ calls = <<[chain |-> "planner", input |-> state.db_entry]>>
    /\ ValidatorIdle
    /\ CacheAfterFirstCall

ExecSpec == ExecInit /\ [][execute_multi_sql]_vars

(***************************************************************************)
(* generate_human_readable_answer on its own: called on a state holding    *)
(* any report and either value of sql_error.                               *)
(***************************************************************************)
\* the values of a report: the rows of a query, or the text of a failure
ReportValues ==
    {[kind |-> "Success", value |-> PyList(rows)] : rows \in DbRowSets}
    \cup {[kind |-> "Error", value |-> PyStr("Error executing: " \o e)] : e \in DbErrors}
    \cup {[kind |-> "Refused", value |-> PyStr("Refused to execute unsafe SQL.")]}

\* the dicts execute_multi_sql may leave in query_rows
Reports ==
    UNION {{[k \in 1..n |-> [key |-> ResultKey(k, f[k].kind), value |-> f[k].value]] :
                f \in [1..n -> ReportValues]} : n \in 0..(MaxBatch + 1)}

SynthesisInit ==
    /\ pc = "generate_human_readable_answer"
    /\ \E question \in Questions \ {""}, query_rows \in Reports, sql_error \in BOOLEAN :
          state = [PlannedState(question, <<>>) EXCEPT
                      !.query_rows = query_rows,
                      !.query_result = PyRepr(query_rows),
                      !.sql_error = sql_error]
    /\ args = NoCall
    /\ ret = NoReturn
    /\ path = <<>>
    /\ batches = <<>>
    /\ db_log = <<>>
    /\ calls = <<>>
    /\ ValidatorIdle
    /\ CacheAfterFirstCall

SynthesisSpec == SynthesisInit /\ [][generate_human_readable_answer]_vars

(***************************************************************************)
(* get_database_schema called by threads, while time passes and the        *)
(* database changes: by the main thread alone, and by two threads.         *)
(***************************************************************************)
\* a step of thread c inside get_database_schema
CallerStep(c) ==
    \/ check_cache(c)
    \/ render(c)
    \/ write_cache(c)
    \/ write_timestamp(c)

SingleCallerNext == tick \/ tables_change \/ CallerStep("main")

SingleCallerSpec == Init /\ [][SingleCallerNext]_vars

ConcurrentNext == tick \/ tables_change \/ \E c \in Callers : CallerStep(c)

ConcurrentSpec == Init /\ [][ConcurrentNext]_vars

\* the tables whose columns the inspector may fail to read
UnreadableSets == {{"cows"}, {"sheeps"}}

\* "".join(parts) for a render in which get_columns raised for the tables of
\* unreadable: the except of lines 184-186 writes a line in their blocks
render_schema_unreadable(now, names, unreadable) ==
    [date_context |-> now,
     blocks |-> [i \in 1..Len(EXPECTED_TABLES) |->
                   [table |-> EXPECTED_TABLES[i],
                    body |-> IF EXPECTED_TABLES[i] \notin names
                             THEN "*(Table not present in database)*"
                             ELSE IF EXPECTED_TABLES[i] \in unreadable
                             THEN "### Columns:\n*(Could not retrieve column information)*"
                             ELSE "### Columns:"]]]

\* lines 140-195 with a get_columns call that raises
render_columns_unreadable(c) ==
    /\ callers[c].pc = "render"
    /\ \E unreadable \in UnreadableSets :
          callers' = [callers EXCEPT
                         ![c].pc = "write_cache",
                         ![c].schema_text =
                             render_schema_unreadable(clock, table_names, unreadable)]
    /\ UNCHANGED <<SCHEMA_CACHE, CACHE_TIMESTAMP, clock, table_names, reads, last_writer,
                   cache_started>>
    /\ UNCHANGED <<flowVars, valVars>>

\* the exception of the inspector taking the cached text with it
inspector_raises_drops_cache(c) ==
    /\ callers[c].pc = "render"
    /\ callers' = [callers EXCEPT ![c].pc = "idle"]
    /\ SCHEMA_CACHE' = None
    /\ UNCHANGED <<CACHE_TIMESTAMP, clock, table_names, reads, last_writer, cache_started>>
    /\ UNCHANGED <<flowVars, valVars>>

\* inspect(engine) (line 144) or inspector.get_table_names() (line 156)
\* raises: no try encloses them, the call ends there
inspector_raises(c) ==
    /\ callers[c].pc = "render"
    /\ callers' = [callers EXCEPT ![c].pc = "idle"]
    /\ UNCHANGED <<SCHEMA_CACHE, CACHE_TIMESTAMP, clock, table_names, reads, last_writer,
                   cache_started>>
    /\ UNCHANGED <<flowVars, valVars>>

\* the main thread calling get_database_schema with an inspector that may fail
IntrospectionNext ==
    \/ SingleCallerNext
    \/ render_columns_unreadable("main")
    \/ inspector_raises("main")

IntrospectionSpec == Init /\ [][IntrospectionNext]_vars

\* the main thread calling get_database_schema, again and again, on a
\* database that holds any of the expected tables and lacks the others
DescribeInit ==
    /\ FlowInit
    /\ ValidatorIdle
    /\ SCHEMA_CACHE = None
    /\ CACHE_TIMESTAMP = 0
    /\ clock = 0
    /\ table_names \in SUBSET {EXPECTED_TABLES[i] : i \in 1..Len(EXPECTED_TABLES)}
    /\ callers = [c \in Callers |-> IdleFrame]
    /\ reads = [prev |-> None, last |-> None, hit |-> FALSE]
    /\ last_writer = "nobody"
    /\ cache_started = 0

DescribeSpec == DescribeInit /\ [][CallerStep("main")]_vars

(***************************************************************************)
(* is_sql_safe called directly: a text drawn from Candidates, then the     *)
(* call.                                                                   *)
(***************************************************************************)
Heads ==
    {"", " ", "\tSelect", "SELECT",
     "DROP TABLE cows; SELECT", "with t as (select 1) select"}

Bodies ==
    {"", " * FROM cows", " * FROM Goat_Health_Records", " * FROM horses"}

Tails ==
    {"", "\n", ";", ";;", " -- all", " WHERE note = 'update me'", " grant ",
     "; DELETE  FROM cows"}

\* the texts is_sql_safe is called with
Candidates == {h \o b \o t : h \in Heads, b \in Bodies, t \in Tails}

\* is_sql_safe is a pure function of the text: its value for each candidate,
\* tabulated once
SafeVerdict == [query \in Candidates |-> is_sql_safe(query)]

ValidatorInit ==
    /\ FlowInit
    /\ candidate \in Candidates
    /\ verdict = NotCalled
    /\ CacheInit

call_is_sql_safe ==
    /\ ~verdict.called
    /\ verdict' = [called |-> TRUE, value |-> SafeVerdict[candidate]]
    /\ UNCHANGED <<flowVars, candidate, cacheVars>>

ValidatorSpec == ValidatorInit /\ [][call_is_sql_safe]_vars

(***************************************************************************)
(* Properties.                                                             *)
(***************************************************************************)
Range(f) == {f[k] : k \in 1..Len(f)}

\* the node the initial router chose in this turn, once it has run
Routed == IF Len(path) >= 2 THEN path[2] ELSE pc

\* C1: within a turn attempts never decreases from one step to the next and
\* never exceeds 3, and end_max_iterations is entered only with attempts = 3.
C1_AttemptsBounded ==
    /\ [](state.attempts \in 0..3)
    /\ [](pc = "end_max_iterations" => state.attempts = 3)
    /\ [][pc # "idle" => state'.attempts >= state.attempts]_vars

C1_Witness == pc = "end_max_iterations" /\ state.attempts = 3

\* C2: a turn in which every executed batch failed ends, after three
\* regenerate_query steps, in end_max_iterations and then END, with
\* attempts = 3 and the fixed maximum-attempts message as its result.
C2_RetryExhausted ==
    (pc \in {"END", "idle"} /\ Len(batches) > 0 /\ \A k \in 1..Len(batches) : batches[k])
    => /\ path = <<"router_entry_node", "db_entry_agent",
                   "convert_to_sql", "execute_sql", "regenerate_query",
                   "convert_to_sql", "execute_sql", "regenerate_query",
                   "convert_to_sql", "execute_sql", "regenerate_query",
                   "end_max_iterations">>
       /\ state.attempts = 3
       /\ state.query_result = PyStr(MaxIterationsMessage)
       /\ pc = "idle" => ret.message = PyStr(MaxIterationsMessage)

C2_Witness == pc = "END" /\ batches = <<TRUE, TRUE, TRUE>>

\* C3: every turn terminates: a started graph run reaches END, and it does so
\* within the 2 + 3*3 + 1 node steps of the longest path, so the
\* convert_to_sql -> execute_sql -> regenerate_query cycle cannot repeat
\* indefinitely.
C3_TurnTerminates ==
    /\ [](Len(path) <= 2 + 3 * 3 + 1)
    /\ (pc = "router_entry_node") ~> (pc = "END")

C3_Witness ==
    /\ pc = "END"
    /\ Len(batches) = 3
    /\ ~batches[3]
    /\ path[Len(path)] = "generate_human_readable_answer"

\* a str made of the digit d with nothing but whitespace around it
Padded(m, d) ==
    /\ m.type = "str"
    /\ \E k \in 1..Len(m.val) :
          /\ CharAt(m.val, k) = d
          /\ \A j \in 1..Len(m.val) : j # k => CharAt(m.val, j) \in Whitespace

\* C4 as stated: only the exact values "1", "2", "3" reach a pipeline; every
\* other mode, also one differing by surrounding whitespace, is invalid.
C4_ExactModeDispatch ==
    Len(path) >= 1 =>
        Routed = IF state.mode = PyStr("1") THEN "db_entry_agent"
                 ELSE IF state.mode = PyStr("2") THEN "disease_diagnosis_agent"
                 ELSE IF state.mode = PyStr("3") THEN "web_research_agent"
                 ELSE "invalid_mode_handler"

\* C4 (amended): mode dispatch is a total function of mode after str() and
\* strip(): "1", "2", "3" with any surrounding whitespace reach db_entry_agent,
\* disease_diagnosis_agent, web_research_agent; every other value, None and
\* the empty string included, reaches invalid_mode_handler.
C4_TrimmedModeDispatch ==
    Len(path) >= 1 =>
        Routed = IF Padded(state.mode, "1") THEN "db_entry_agent"
                 ELSE IF Padded(state.mode, "2") THEN "disease_diagnosis_agent"
                 ELSE IF Padded(state.mode, "3") THEN "web_research_agent"
                 ELSE "invalid_mode_handler"

C4_Witness ==
    /\ Len(path) >= 1
    /\ state.mode = PyStr(" 3\n")
    /\ Routed = "web_research_agent"

\* C5: with an empty question db_entry_agent sets the awaiting-input flag and
\* the turn halts there: the planner is never invoked and no SQL is validated
\* or executed.
C5_EmptyQuestionHalts ==
    (pc # "idle" /\ state.awaiting_input # PyAbsent)
    => /\ path[Len(path)] = "db_entry_agent"
       /\ "convert_to_sql" \notin Range(path)
       /\ "execute_sql" \notin Range(path)
       /\ batches = <<>>

\* the states right after execute_sql and its router, before any other node
AfterExecute == pc \in {"generate_human_readable_answer", "regenerate_query"}

endswith(s, p) == Len(s) >= Len(p) /\ SubSeq(s, Len(s) - Len(p) + 1, Len(s)) = p

\* the label of the report entry for the query at position n
Label(n, kind) == "Query_" \o ToString(n) \o "_" \o kind

\* the statements the database received for the query at position n
SentAt(n) == {k \in 1..Len(db_log) : db_log[k].pos = n}

\* C6: a batch of n queries yields a report of exactly n entries with pairwise
\* distinct labels, the i-th entry being the outcome of the i-th query.
C6_OneEntryPerQuery ==
    AfterExecute =>
        LET rows == state.query_rows
            queries == state.sql_query
        IN /\ Len(rows) = Len(queries)
           /\ \A i, j \in 1..Len(rows) : i # j => rows[i].key # rows[j].key
           /\ \A i \in 1..Len(rows) :
                IF SentAt(i) = {}
                THEN rows[i] = [key |-> Label(i, "Refused"),
                                value |-> PyStr("Refused to execute unsafe SQL.")]
                ELSE \E k \in SentAt(i) :
                        /\ db_log[k].text = Prepared[queries[i]].sent
                        /\ rows[i] =
                             IF db_log[k].outcome.ok
                             THEN [key |-> Label(i, "Success"),
                                   value |-> PyList(db_log[k].outcome.rows)]
                             ELSE [key |-> Label(i, "Error"),
                                   value |-> PyStr("Error executing: "
                                                   \o db_log[k].outcome.error)]

C6_Witness ==
    /\ AfterExecute
    /\ Len(state.sql_query) = 2
    /\ state.sql_query[1] = state.sql_query[2]
    /\ Len(state.query_rows) = 2
    /\ endswith(state.query_rows[1].key, "_Refused")
    /\ endswith(state.query_rows[2].key, "_Refused")

\* the number of Error entries plus the number of Refused entries of a report
ErrorCount(rows) ==
    Cardinality({k \in 1..Len(rows) :
                    endswith(rows[k].key, "_Error") \/ endswith(rows[k].key, "_Refused")})

\* C7: after execute_sql, sql_error is true iff errorCount > 0, errorCount
\* being the number of Error plus Refused entries of the batch's report; a
\* report of Success entries only, the empty one included, has sql_error false.
C7_SqlErrorIffErrorCount ==
    AfterExecute => (state.sql_error <=> ErrorCount(state.query_rows) > 0)

C7_Witness ==
    /\ AfterExecute
    /\ state.sql_error
    /\ Len(state.query_rows) = 2
    /\ endswith(state.query_rows[1].key, "_Success")
    /\ endswith(state.query_rows[2].key, "_Refused")
    /\ ErrorCount(state.query_rows) = 1

\* C8: a database failure at position i is recorded as an Error entry at i
\* and does not abort the batch: every later query is still validated and, if
\* safe, executed.
C8_FailureDoesNotAbort ==
    AfterExecute =>
        \A k \in 1..Len(db_log) :
            ~db_log[k].outcome.ok =>
                LET i == db_log[k].pos IN
                /\ i \in 1..Len(state.query_rows)
                /\ state.query_rows[i].key = Label(i, "Error")
                /\ \A j \in (i + 1)..Len(state.sql_query) :
                      /\ j \in 1..Len(state.query_rows)
                      /\ IF Prepared[state.sql_query[j]].safe
                         THEN SentAt(j) # {}
                         ELSE state.query_rows[j].key = Label(j, "Refused")

C8_Witness ==
    /\ AfterExecute
    /\ Len(db_log) = 2
    /\ ~db_log[1].outcome.ok
    /\ db_log[2].outcome.ok
    /\ state.query_rows[1].key = "Query_1_Error"
    /\ state.query_rows[2].key = "Query_2_Success"

DropCandidate == "DROP TABLE cows; SELECT * FROM cows"

\* C9: a query is_sql_safe rejects is never passed to the database: it gets a
\* Refused entry at its position, counts as an error, and the loop goes on to
\* the next query; "DROP TABLE cows; SELECT * FROM cows" is such a query.
C9_UnsafeNeverExecuted ==
    AfterExecute =>
        /\ \A i \in 1..Len(state.sql_query) :
              (~Prepared[state.sql_query[i]].safe \/ state.sql_query[i] = DropCandidate)
              => /\ SentAt(i) = {}
                 /\ i \in 1..Len(state.query_rows)
                 /\ state.query_rows[i].key = Label(i, "Refused")
                 /\ state.sql_error
                 /\ Len(state.query_rows) = Len(state.sql_query)
        /\ \A k \in 1..Len(db_log) : Prepared[state.sql_query[db_log[k].pos]].safe

C9_Witness ==
    /\ AfterExecute
    /\ Len(state.sql_query) = 2
    /\ state.sql_query[1] = DropCandidate
    /\ state.query_rows[1].key = "Query_1_Refused"
    /\ Len(db_log) = 1
    /\ db_log[1].pos = 2

\* the statements of a text: the pieces between separators, from position k on
RECURSIVE SplitStatements(_, _, _)
SplitStatements(text, k, piece) ==
    IF k > Len(text) THEN <<piece>>
    ELSE IF CharAt(text, k) = ";"
         THEN <<piece>> \o SplitStatements(text, k + 1, "")
         ELSE SplitStatements(text, k + 1, piece \o CharAt(text, k))

IsSelect(statement) == startswith(lower(strip(statement)), "select")

\* every statement of the text is a SELECT (an empty piece is no statement)
OnlySelects(text) ==
    LET pieces == SplitStatements(text, 1, "") IN
    \A k \in 1..Len(pieces) : Len(strip(pieces[k])) > 0 => IsSelect(pieces[k])

\* C10: database access is read-only: every statement of every text handed
\* to session.execute is a SELECT; no text with another statement stacked
\* after a separator is executed.
C10_OnlySelectsExecuted ==
    \A k \in 1..Len(db_log) : OnlySelects(db_log[k].text)

Digits == "0123456789"

IsDigit(c) == \E k \in 1..Len(Digits) : CharAt(Digits, k) = c

DigitValue(c) == (CHOOSE k \in 1..Len(Digits) : CharAt(Digits, k) = c) - 1

\* the number a non-empty string of digits denotes
RECURSIVE ParseNat(_)
ParseNat(s) ==
    IF Len(s) = 0 THEN 0
    ELSE 10 * ParseNat(SubSeq(s, 1, Len(s) - 1)) + DigitValue(CharAt(s, Len(s)))

IsNumber(s) == Len(s) > 0 /\ \A k \in 1..Len(s) : IsDigit(CharAt(s, k))

\* the text ends with a LIMIT clause of at most 100 rows
CapsAt100(text) ==
    \E k \in 1..(Len(text) - 7) :
        /\ lower(SubSeq(text, k, k + 6)) = " limit "
        /\ LET n == strip(SubSeq(text, k + 7, Len(text))) IN
              IsNumber(n) /\ ParseNat(n) <= 100

\* the statements of the model that end with such a clause
CappedTexts ==
    {Prepared[raw].sent : raw \in {r \in ExecutorQueries : CapsAt100(Prepared[r].sent)}}

\* C11: every text handed to session.execute ends with a LIMIT clause of at
\* most 100 rows, whatever the planner wrote: also when its statement names a
\* larger limit or only holds the letters "limit" in an identifier.
C11_RowCapOnEverySubmission ==
    \A k \in 1..Len(db_log) : db_log[k].text \in CappedTexts

\* the text is empty or holds whitespace only
Blank(text) == \A k \in 1..Len(text) : CharAt(text, k) \in Whitespace

\* the candidates C12 speaks of
BlankOrNotSelect ==
    {c \in Candidates : Blank(c) \/ ~startswith(lower(strip(c)), "select")}

\* C12: is_sql_safe returns False for every text that is empty or
\* whitespace-only, and for every text whose trimmed, lower-cased form does
\* not start with "select".
C12_BlankOrNotSelectRejected ==
    (verdict.called /\ candidate \in BlankOrNotSelect) => ~verdict.value

C12_Witness ==
    /\ verdict.called
    /\ candidate = "with t as (select 1) select * FROM cows"
    /\ ~verdict.value

\* the deny-list as C13 gives it
DenyListed ==
    {"drop ", "alter ", "truncate ", "delete from", "update ", "insert into",
     "create table", "grant ", "revoke ", "--", "/*", "*/"}

\* more than one separator
ManySeparators == {c \in Candidates : count(c, ";") > 1}

\* a deny-listed substring in the lower-cased text, trimmed or not
DeniedUntrimmed ==
    {c \in Candidates : \E p \in DenyListed : Contains(lower(c), p)}

DeniedTrimmed ==
    {c \in Candidates : \E p \in DenyListed : Contains(lower(strip(c)), p)}

\* C13 as stated: is_sql_safe returns False for every text with more than
\* one ';' and for every text whose lower-cased form contains a deny-listed
\* substring, whatever else the text contains.
C13_SeparatorsOrDenyListRejected ==
    (verdict.called /\ candidate \in ManySeparators \cup DeniedUntrimmed)
    => ~verdict.value

\* C13 (amended): is_sql_safe returns False for every text with more than one
\* ';' and for every text whose trimmed, lower-cased form contains a
\* deny-listed substring, whatever else the text contains.
C13_SeparatorsOrTrimmedDenyListRejected ==
    (verdict.called /\ candidate \in ManySeparators \cup DeniedTrimmed)
    => ~verdict.value

C13_Witness ==
    /\ verdict.called
    /\ candidate = "SELECT * FROM cows WHERE note = 'update me'"
    /\ ~verdict.value

\* the twelve table names as C14 gives them: species x {core, health, production}
TwelveTables ==
    {"cows", "cow_health_records", "cow_production_records",
     "goats", "goat_health_records", "goat_production_records",
     "sheeps", "sheep_health_records", "sheep_production_records",
     "chickens", "chicken_health_records", "chicken_production_records"}

\* no allow-listed name occurs in the lower-cased text
NamesNoTable == {c \in Candidates : \A t \in TwelveTables : ~Contains(lower(c), t)}

\* the candidates that pass checks 1-4: not blank, "select" first, at most
\* one separator, nothing deny-listed
PassesFirstFour ==
    Candidates \ (BlankOrNotSelect \cup ManySeparators \cup DeniedTrimmed)

\* C14: is_sql_safe returns False for every text in which none of the twelve
\* allow-listed table names occurs, also when it passes every other check;
\* a text that passes checks 1-4 and names an allow-listed table is accepted.
C14_AllowListDecides ==
    verdict.called =>
        /\ candidate \in NamesNoTable => ~verdict.value
        /\ candidate \in PassesFirstFour \ NamesNoTable => verdict.value

C14_Witness ==
    /\ verdict.called
    /\ candidate = "SELECT * FROM horses"
    /\ candidate \in PassesFirstFour
    /\ ~verdict.value

\* the cache holds nothing, or what it holds is SCHEMA_CACHE_DURATION old or older
Expired == SCHEMA_CACHE = None \/ clock >= CACHE_TIMESTAMP + SCHEMA_CACHE_DURATION

\* this step is thread c's expiry test: c was outside the function and its
\* frame or the record of returns changed, no other thread moving
IsCheck(c) ==
    /\ callers[c].pc = "idle"
    /\ \A d \in Callers \ {c} : callers'[d] = callers[d]
    /\ callers'[c] # callers[c] \/ reads' # reads

\* the threads inside a refill
Refilling == {c \in Callers : callers[c].pc # "idle"}

C16_CacheInvariantEveryInterleaving ==
    /\ (reads.hit /\ reads.prev # None) => reads.prev = reads.last
    /\ Cardinality(Refilling) <= 1

\* C17: two callers can both pass the expiry test and both render; the cache
\* then holds the text of whichever assigned _SCHEMA_CACHE last, and each of
\* them goes on to its return.
C17_LastWriteWins ==
    /\ \A c \in Callers :
          (last_writer = c /\ callers[c].pc \in {"write_timestamp", "idle"})
          => SCHEMA_CACHE = callers[c].schema_text
    /\ \A c \in Refilling : ENABLED CallerStep(c)

C17_Witness ==
    /\ callers["main"].pc = "write_timestamp"
    /\ callers["other"].pc = "write_timestamp"
    /\ callers["main"].current_time = callers["other"].current_time
    /\ callers["main"].schema_text # callers["other"].schema_text
    /\ last_writer = "other"
    /\ SCHEMA_CACHE = callers["other"].schema_text

\* this step ends a graph run by an exception
Raises == pc \notin {"idle", "END"} /\ pc' = "idle"

\* C18: process_livestock_query always returns: when a step of the graph
\* raises, no further node runs and the value returned has type "error", a
\* message that ends with the text of the exception, and as next_mode the
\* mode the caller passed.
C18_RaiseBecomesErrorReturn ==
    /\ [][Raises =>
            /\ ret'.type = "error"
            /\ \E e \in Exceptions : endswith(ret'.message.val, e)
            /\ ret'.next_mode = args.current_mode
            /\ path' = path]_vars
    /\ []((pc = "idle" /\ args # NoCall) => ret.type \in {"success", "error"})

C18_Witness ==
    /\ pc = "idle"
    /\ ret.type = "error"
    /\ args.current_mode = PyStr(" 3\n")
    /\ ret.next_mode = PyStr(" 3\n")
    /\ path = <<"router_entry_node">>

\* the state of a turn that has just started
Fresh(s) ==
    /\ s.attempts = 0
    /\ s.sql_query = <<>>
    /\ s.query_rows = <<>>
    /\ s.sql_error = FALSE
    /\ s.db_entry = ""
    /\ s.query_result = PyStr("")

\* C19: every turn starts from a fresh state (attempts 0, no queries, no
\* rows, sql_error false, db_entry and result empty) however the turn before
\* ended; of the caller's arguments it holds the question and the mode.
C19_TurnStartsFresh ==
    /\ [](pc = "router_entry_node" => Fresh(state))
    /\ [][pc = "idle" =>
            /\ Fresh(state')
            /\ state'.mode = args'.current_mode
            /\ state'.question = args'.question
            /\ state'.awaiting_input = PyAbsent
            /\ state'.router_error = PyAbsent]_vars

\* a turn has ended by an exception in the third attempt, leaving a used state
C19_Witness ==
    /\ pc = "idle"
    /\ ret.type = "error"
    /\ state.attempts = 2
    /\ state.sql_error
    /\ Len(state.query_rows) > 0
    /\ ENABLED process_livestock_query

\* C20: after each execute_sql step query_rows holds exactly the entries of
\* the batch just executed, one per query of that batch and none of an
\* earlier batch, and sql_error tells whether that batch had a refusal or a
\* database error.
C20_OnlyLastBatchReported ==
    AfterExecute =>
        /\ Len(state.query_rows) = Len(state.sql_query)
        /\ \A i \in 1..Len(state.query_rows) :
              state.query_rows[i].key =
                 IF ~Prepared[state.sql_query[i]].safe THEN Label(i, "Refused")
                 ELSE IF \E k \in SentAt(i) : db_log[k].outcome.ok THEN Label(i, "Success")
                 ELSE Label(i, "Error")
        /\ state.sql_error <=>
              \/ \E i \in 1..Len(state.sql_query) : ~Prepared[state.sql_query[i]].safe
              \/ \E k \in 1..Len(db_log) : ~db_log[k].outcome.ok
        /\ batches[Len(batches)] = state.sql_error

\* an empty plan after a failed batch: nothing of the failed batch is left
C20_Witness ==
    /\ AfterExecute
    /\ batches = <<TRUE, FALSE>>
    /\ state.sql_query = <<>>
    /\ state.query_rows = <<>>
    /\ ~state.sql_error

(***************************************************************************)
(* C21.  An invalid mode.                                                  *)
(***************************************************************************)
\* the turn went to invalid_mode_handler and the graph has ended
InvalidModeTurnEnded ==
    /\ pc = "END"
    /\ Len(path) >= 2
    /\ path[2] = "invalid_mode_handler"

C22_AtMostFiveQueries ==
    /\ Len(state.sql_query) <= MaxQueries
    /\ Len(state.query_rows) <= MaxQueries
    /\ Len(db_log) <= MaxQueries

(***************************************************************************)
(* C23.  get_database_schema on a database that lacks expected tables.     *)
(***************************************************************************)
\* the keys of expected_tables, as lines 147-154 insert them
TablesInOrder ==
    <<"cows", "cow_health_records", "cow_production_records",
      "goats", "goat_health_records", "goat_production_records",
      "sheeps", "sheep_health_records", "sheep_production_records",
      "chickens", "chicken_health_records", "chicken_production_records">>

\* the main thread has returned from a call that rendered the text
Described ==
    /\ callers["main"].pc = "idle"
    /\ reads.last # None
    /\ ~reads.hit

\* C23: whichever of the twelve expected tables the database holds, the call
\* returns a text with one block per expected table in the fixed order, the
\* block of a table being the placeholder exactly when the table is absent,
\* and that text is the cached one.
C23_AbsentTablesRendered ==
    Described =>
        /\ Len(reads.last.blocks) = Len(TablesInOrder)
        /\ \A i \in 1..Len(TablesInOrder) :
              /\ reads.last.blocks[i].table = TablesInOrder[i]
              /\ (reads.last.blocks[i].body = "*(Table not present in database)*")
                    <=> (TablesInOrder[i] \notin table_names)
        /\ SCHEMA_CACHE = reads.last

\* a call has returned on a database holding the cow tables and no sheep table
C23_Witness ==
    /\ Described
    /\ {"cows", "cow_health_records", "cow_production_records"} \subseteq table_names
    /\ table_names \cap {"sheeps", "sheep_health_records", "sheep_production_records"} = {}

(***************************************************************************)
(* C24.  What follows execute_sql.                                         *)
(***************************************************************************)
\* C24: the step after execute_sql is generate_human_readable_answer when
\* the batch left sql_error false and regenerate_query when it left it true,
\* never anything else; a refused query, a failed query and an empty result
\* are recorded in the report and routed this way, the call does not end
\* with an error return.
C24_ExecuteThenAnswerOrRegenerate ==
    [][pc = "execute_sql" =>
          /\ pc' = IF state'.sql_error THEN "regenerate_query"
                    ELSE "generate_human_readable_answer"
          /\ path' = Append(path, "execute_sql")
          /\ ret' = ret]_vars

\* a batch of a failed and a refused query has been routed to regenerate_query
C24_Witness ==
    /\ pc = "regenerate_query"
    /\ path[Len(path)] = "execute_sql"
    /\ Len(state.query_rows) = 2
    /\ state.query_rows[1].key = "Query_1_Error"
    /\ state.query_rows[2].key = "Query_2_Refused"

(***************************************************************************)
(* C25.  The prompt of the synthesis step.                                 *)
(***************************************************************************)
\* the prompt shape the claim assigns to a pair (sql_error, query_rows)
PromptShape(sql_error, query_rows) ==
    IF sql_error THEN "sql_error"
    ELSE IF \A k \in 1..Len(query_rows) : Len(query_rows[k].value.val) = 0
         THEN "no_data"
         ELSE "data_available"

\* C25: a synthesis step calls the synthesizer exactly once, with the prompt
\* that (sql_error, query_rows) determine: the error explanation when
\* sql_error is true, else the no-data prompt when every entry of query_rows
\* is empty, else the data prompt.
C25_PromptShapeDetermined ==
    [][pc = "generate_human_readable_answer" =>
          calls' = Append(calls, [chain |-> "synthesizer",
                                  input |-> PromptShape(state.sql_error, state.query_rows)])]_vars

\* the synthesizer has been called once, with the no-data prompt, on a
\* report of two empty results
C25_Witness ==
    /\ pc = "END"
    /\ calls = <<[chain |-> "synthesizer", input |-> "no_data"]>>
    /\ Len(state.query_rows) = 2
    /\ ~state.sql_error

(***************************************************************************)
(* C26.  The turns of mode "2" and mode "3".                               *)
(***************************************************************************)
AdviceNodes == {"disease_diagnosis_agent", "web_research_agent"}

\* the chain each of the two nodes invokes
AdviceChain(node) ==
    IF node = "disease_diagnosis_agent" THEN "diagnosis_chain" ELSE "research_chain"

\* C26: a turn routed to disease_diagnosis_agent or web_research_agent runs
\* that node alone after the router, with one language model call, and ends;
\* the planner, the rewriter, the validator and the executor do not run, and
\* sql_query, query_rows, sql_error, db_entry and attempts stay as the turn
\* started them.
C26_AdviceTurnTouchesNoQueryField ==
    Routed \in AdviceNodes =>
        /\ state.sql_query = <<>>
        /\ state.query_rows = <<>>
        /\ state.sql_error = FALSE
        /\ state.db_entry = ""
        /\ state.attempts = 0
        /\ batches = <<>>
        /\ db_log = <<>>
        /\ \A k \in 1..Len(calls) : calls[k].chain = AdviceChain(Routed)
        /\ pc \in {"END", "idle"} =>
              /\ path = <<"router_entry_node", Routed>>
              /\ Len(calls) = 1

\* a mode "3" turn has ended after its one call
C26_Witness ==
    /\ pc = "END"
    /\ path = <<"router_entry_node", "web_research_agent">>
    /\ calls = <<[chain |-> "research_chain", input |-> "How old is COW.1?"]>>
    /\ Str(state.mode) = "3"

(***************************************************************************)
(* C27.  What regenerate_query writes.                                     *)
(***************************************************************************)
\* the fields regenerate_query is said to leave alone
KeptByRegenerate ==
    {"question", "mode", "animal_type", "sql_query", "query_rows", "sql_error"}

\* C27: a regenerate_query step adds exactly 1 to attempts, puts the
\* rewriter's question in db_entry, and leaves question, mode, animal_type,
\* sql_query, query_rows and sql_error as they were; no step of a turn
\* changes question, which stays the text the caller passed.
C27_RegenerateWritesTwoFields ==
    /\ [][pc = "regenerate_query" =>
            /\ state'.attempts = state.attempts + 1
            /\ state'.db_entry \in RewriterOutputs
            /\ \A f \in KeptByRegenerate : state'[f] = state[f]]_vars
    /\ [][pc # "idle" => state'.question = state.question]_vars
    /\ [](pc # "idle" => state.question = args.question)

\* the first rewrite has been made: db_entry is no longer the question, the
\* failed plan and its report are still in the state
C27_Witness ==
    /\ pc = "convert_to_sql"
    /\ state.attempts = 1
    /\ state.db_entry \in RewriterOutputs
    /\ state.db_entry # state.question
    /\ state.sql_error
    /\ Len(state.sql_query) > 0
    /\ Len(state.query_rows) > 0

(***************************************************************************)
(* C28.  The states in which the synthesis step is entered.                *)
(***************************************************************************)
\* C28: generate_human_readable_answer is entered only with sql_error false
\* and a report of Success entries alone, so in no run of the graph does the
\* synthesis step build the error-explanation prompt.
C28_SynthesisOnlyAfterSuccess ==
    /\ pc = "generate_human_readable_answer" =>
          /\ ~state.sql_error
          /\ \A k \in 1..Len(state.query_rows) :
                state.query_rows[k].key = Label(k, "Success")
    /\ \A k \in 1..Len(calls) :
          calls[k].chain = "synthesizer" => calls[k].input # "sql_error"

\* the synthesis step has run on a report of a result with rows and an empty one
C28_Witness ==
    /\ pc = "END"
    /\ Len(calls) = 2
    /\ calls[2] = [chain |-> "synthesizer", input |-> "data_available"]
    /\ Len(state.query_rows) = 2
    /\ batches = <<FALSE>>

(***************************************************************************)
(* C29.  How often the planner and the rewriter run.                       *)
(***************************************************************************)
\* the positions in calls, up to n, of the calls of one chain
CallsOf(chain, n) == {k \in 1..n : calls[k].chain = chain}

\* C29: in a turn the planner is called at most three times, at most three
\* batches are executed and the rewriter is called at most three times; the
\* question written by the third rewrite is never given to the planner: no
\* planner call follows the third rewriter call.
C29_ThirdRewriteUnused ==
    /\ Cardinality(CallsOf("planner", Len(calls))) <= 3
    /\ Len(batches) <= 3
    /\ Cardinality(CallsOf("rewriter", Len(calls))) <= 3
    /\ \A k \in CallsOf("rewriter", Len(calls)) :
          Cardinality(CallsOf("rewriter", k)) = 3 =>
              /\ CallsOf("planner", Len(calls)) \subseteq 1..k
              /\ pc \in {"end_max_iterations", "END", "idle"}

\* a turn has ended after three plans, three batches and three rewrites
C29_Witness ==
    /\ pc = "END"
    /\ Cardinality(CallsOf("planner", Len(calls))) = 3
    /\ Cardinality(CallsOf("rewriter", Len(calls))) = 3
    /\ Len(batches) = 3
    /\ state.db_entry \in RewriterOutputs

(***************************************************************************)
(* C30.  The return of a graph run that ended.                             *)
(***************************************************************************)
\* C30: when app.invoke returns, process_livestock_query returns type
\* "success" with the final query_result and mode; the return "Workflow
\* completed but no result was generated" is never made, the final state
\* always holding the key the turn started with, also when the result is
\* the empty text.
C30_CompletedRunReturnsSuccess ==
    /\ [][pc = "END" =>
            /\ ret'.type = "success"
            /\ ret'.message = state.query_result
            /\ ret'.next_mode = state.mode]_vars
    /\ [](state.query_result # PyAbsent)
    /\ [](ret # NoResultReturn(args.current_mode))

\* a turn whose result is the empty text has returned "success"
C30_Witness ==
    /\ pc = "idle"
    /\ ret.type = "success"
    /\ ret.message = PyStr("")
    /\ Len(path) > 0

(***************************************************************************)
(* C31.  A plan without queries.                                           *)
(***************************************************************************)
\* the batch executed last was the empty plan: sql_query is written by
\* convert_nl_to_sql alone, and execute_sql follows it at once
EmptyPlanExecuted ==
    /\ state.sql_query = <<>>
    /\ pc # "execute_sql"
    /\ \E k \in 1..Len(path) : path[k] = "execute_sql"

\* the regenerate_query steps of the turn so far
Rewrites == Cardinality({k \in 1..Len(path) : path[k] = "regenerate_query"})

\* C31: when the planner returns no query, execute_sql leaves an empty
\* report with sql_error false, the turn goes on to
\* generate_human_readable_answer and not to regenerate_query, attempts is
\* not raised, and the synthesis step builds the no-data prompt.
C31_EmptyPlanIsAnsweredAsNoData ==
    EmptyPlanExecuted =>
        /\ state.query_rows = <<>>
        /\ ~state.sql_error
        /\ batches[Len(batches)] = FALSE
        /\ state.attempts = Rewrites
        /\ IF path[Len(path)] = "execute_sql"
           THEN pc = "generate_human_readable_answer"
           ELSE /\ path[Len(path)] = "generate_human_readable_answer"
                /\ path[Len(path) - 1] = "execute_sql"
                /\ pc \in {"END", "idle"}
                /\ calls[Len(calls)] = [chain |-> "synthesizer", input |-> "no_data"]

\* a first plan without queries has been answered with the no-data prompt
C31_Witness ==
    /\ pc = "END"
    /\ EmptyPlanExecuted
    /\ state.attempts = 0
    /\ Len(calls) = 2
    /\ calls[2] = [chain |-> "synthesizer", input |-> "no_data"]

(***************************************************************************)
(* C32.  The cached text and its timestamp.                                *)
(***************************************************************************)
\* no thread is between line 197 and line 198
NoRefillBetweenWrites == \A c \in Callers : callers[c].pc # "write_timestamp"

\* C32: in every interleaving of calls, whenever no refill is between its two
\* writes, _CACHE_TIMESTAMP is the current_time of the call that rendered
\* the text in _SCHEMA_CACHE: the text of one caller is never left with the
\* timestamp of another.
C32_CachedPairConsistent ==
    (NoRefillBetweenWrites /\ SCHEMA_CACHE # None) => CACHE_TIMESTAMP = cache_started

(***************************************************************************)
(* C33.  Introspection that fails.                                         *)
(***************************************************************************)
\* a text in which the columns of some table could not be read
HasUnreadableBlock(text) ==
    \E i \in 1..Len(text.blocks) :
        text.blocks[i].body = "### Columns:\n*(Could not retrieve column information)*"

\* C33: a call that ends inside the render, by the inspector raising, returns
\* no text and leaves _SCHEMA_CACHE and _CACHE_TIMESTAMP exactly as they
\* were; a call in which only the columns of a table could not be read
\* returns a text saying so, and the cache holds that text and the call's
\* start time like after any render.
C33_IntrospectionFailure ==
    /\ [][(callers["main"].pc = "render" /\ callers'["main"].pc = "idle") =>
            UNCHANGED <<SCHEMA_CACHE, CACHE_TIMESTAMP, reads>>]_vars
    /\ [][(/\ callers["main"].pc = "write_timestamp"
            /\ callers'["main"].pc = "idle"
            /\ HasUnreadableBlock(callers["main"].schema_text)) =>
            /\ reads'.last = callers["main"].schema_text
            /\ ~reads'.hit
            /\ SCHEMA_CACHE' = callers["main"].schema_text
            /\ CACHE_TIMESTAMP' = callers["main"].current_time]_vars
    /\ [](callers["main"].pc \in {"write_cache", "write_timestamp"} =>
            Len(callers["main"].schema_text.blocks) = Len(TablesInOrder))

\* the cache holds a text with an unreadable table since time 0; a call made
\* after its expiry has ended by an exception and the cache is as it was
C33_Witness ==
    /\ callers["main"].pc = "idle"
    /\ SCHEMA_CACHE # None
    /\ HasUnreadableBlock(SCHEMA_CACHE)
    /\ CACHE_TIMESTAMP = 0
    /\ callers["main"].current_time >= SCHEMA_CACHE_DURATION

(***************************************************************************)
(* C34.  The text handed to the database.                                  *)
(***************************************************************************)
\* what C34 says is submitted for a statement of the plan
SubmittedText ==
    [raw \in ExecutorQueries |->
        LET trimmed == strip(raw) IN
        IF Contains(lower(trimmed), "limit") THEN trimmed ELSE trimmed \o " LIMIT 100"]

====
